---- MODULE Spec2Model ----
(***************************************************************************)
(* go-swisseph: the cgo binding shim over the Swiss Ephemeris library.     *)
(*                                                                         *)
(* Every exported wrapper marshals its arguments, makes one native call    *)
(* with fresh (zeroed) local output buffers, and marshals the native       *)
(* return value, the output buffers and the message buffer back.           *)
(*                                                                         *)
(* Spec    : the wrappers over an arbitrary native outcome (any status,    *)
(*           any message, any output values).                              *)
(* SpecLib : the wrappers over the native library's process-wide state     *)
(*           (configuration, open ephemeris files).                        *)
(* SpecCfg : the calculation calls around changes of the configuration.    *)
(* SpecThr : two threads calling wrappers with no serialization.           *)
(*                                                                         *)
(* A double is modelled by an integer; a Go string and a C string by a     *)
(* sequence of non-zero bytes; a C buffer by a sequence of bytes of the    *)
(* buffer's size.                                                          *)
(***************************************************************************)
EXTENDS Integers, Sequences, FiniteSets, TLC

(***************************************************************************)
(* The result types of types.go.  A float64 and an int32 are integers, a   *)
(* string and a []float64 are sequences of integers.  Every record of the  *)
(* model lists its fields in the order in which this section first names   *)
(* them.                                                                   *)
(***************************************************************************)
Float64 == Int
Int32 == Int
String == Seq(Int)
Float64s == Seq(Int)

CalcResult == [Flag : Int32, Error : String, Data : Float64s]
HousesResult == [Flag : Int32, Houses : Float64s, Points : Float64s]
EclipseResult ==
    [Flag : Int32, Error : String, Maximum : Float64, Begin : Float64,
     End : Float64, Totality : Float64, Attr : Float64s]
EclipseWhereResult ==
    [Flag : Int32, Error : String, Attr : Float64s, Longitude : Float64,
     Latitude : Float64]
RiseTransResult == [Flag : Int32, Error : String, Time : Float64]
FixstarResult ==
    [Flag : Int32, Error : String, Data : Float64s, StarName : String]
FixstarMagResult ==
    [Flag : Int32, Error : String, StarName : String, Magnitude : Float64]
NodApsResult ==
    [Flag : Int32, Error : String, Ascending : Float64s,
     Descending : Float64s, Perihelion : Float64s, Aphelion : Float64s]
OrbitalElementsResult == [Flag : Int32, Error : String, Elements : Float64s]
HeliacalResult ==
    [Flag : Int32, Error : String, Attr : Float64s, Time : Float64s]

VARIABLES
    fn,     \* name of the wrapper called last ("" before the first call)
    nat,    \* what the native call of that wrapper did: status, message, outputs
    res,    \* what the wrapper returned to its caller
    swed,   \* the native library's process-wide state
    arg,    \* the arguments kept of the last call, <<>> when none is kept
    memo,   \* an earlier calculation call, kept to compare later calls with it
    pc      \* per thread: the wrapper call it is inside, if any

vars == <<fn, nat, res, swed, arg, memo, pc>>

(***************************************************************************)
(* Bounds of the model.                                                    *)
(***************************************************************************)
MaxMsgLen == 1      \* native messages have 0..MaxMsgLen bytes
MaxStatus == 2      \* native status values are -MaxStatus..MaxStatus

(***************************************************************************)
(* Program constants.                                                      *)
(***************************************************************************)
asMaxch == 256
OK == 0
ERR == -1

Bytes == {65}
Msgs == UNION {[1..n -> Bytes] : n \in 0..MaxMsgLen}
Statuses == (0 - MaxStatus)..MaxStatus
Vals == {0, 1}

\* The values a native call writes into an n-element output array: pairwise
\* different entries, so that a permuted or shifted copy is visible.
OutVec(b, n) == [i \in 1..n |-> b + 10 * i]
Zeros(n) == [i \in 1..n |-> 0]

(***************************************************************************)
(* cgo conversions.                                                        *)
(***************************************************************************)
\* C.int(x) of an int32 and int32(x) of a C.int: both types are 32 bits wide
\* and signed, so the value is kept.
ToInt32(x) == x

\* var serr [asMaxch]C.char : a Go array is zeroed when declared.
ZeroBuf(n) == [i \in 1..n |-> 0]

\* What the native library does to a char buffer when it reports message s:
\* strcpy(buf, s).  A native call that has nothing to report leaves it alone.
WriteCStr(buf, s) == s \o <<0>> \o SubSeq(buf, Len(s) + 2, Len(buf))

NativeSerr(buf, s) == IF s = <<>> THEN buf ELSE WriteCStr(buf, s)

\* C.GoString(&buf[0]) : the bytes before the first NUL.
GoString(buf) ==
    LET n == CHOOSE k \in 0..Len(buf) :
                 /\ \A j \in 1..k : buf[j] # 0
                 /\ (k = Len(buf) \/ buf[k + 1] = 0)
    IN  SubSeq(buf, 1, n)

\* A Go error value: nil, or fmt.Errorf("%s", msg).
NilErr == [msg |-> <<>>, nil |-> TRUE]
Errorf(s) == [msg |-> s, nil |-> FALSE]

(***************************************************************************)
(* Wrappers returning a record with Flag and Error.  Each operator is the  *)
(* part of the wrapper after the native call: its parameters are the       *)
(* native return value and the wrapper's local buffers as the native call  *)
(* left them.                                                              *)
(***************************************************************************)
\* var serr [asMaxch]C.char
\* A buffer shared by all calls: it holds what the call before left in it.
SerrStale ==
    IF "Error" \in DOMAIN res THEN WriteCStr(ZeroBuf(asMaxch), res.Error)
    ELSE ZeroBuf(asMaxch)

SerrLocal == ZeroBuf(asMaxch)

CalcShort(flag, xx, serr) ==
    [Flag  |-> ToInt32(flag),
     Error |-> GoString(serr),
     Data  |-> [i \in 1..6 |-> IF i < 6 THEN xx[i] ELSE 0]]

Calc(flag, xx, serr) ==
    [Flag  |-> ToInt32(flag),
     Error |-> GoString(serr),
     Data  |-> [i \in 1..6 |-> xx[i]]]

CalcUTFailureOnly(flag, xx, serr) ==
    [Flag  |-> ToInt32(flag),
     Error |-> IF flag < 0 THEN GoString(serr) ELSE <<>>,
     Data  |-> [i \in 1..6 |-> xx[i]]]

CalcUT(flag, xx, serr) ==
    [Flag  |-> ToInt32(flag),
     Error |-> GoString(serr),
     Data  |-> [i \in 1..6 |-> xx[i]]]

\* A result without the message.
CalcPctrNoError(flag, xx, serr) ==
    [Flag  |-> ToInt32(flag),
     Error |-> <<>>,
     Data  |-> [i \in 1..6 |-> xx[i]]]

CalcPctr(flag, xx, serr) ==
    [Flag  |-> ToInt32(flag),
     Error |-> GoString(serr),
     Data  |-> [i \in 1..6 |-> xx[i]]]

GetAyanamsaEx(flag, daya, serr) ==
    [Flag |-> ToInt32(flag), Error |-> GoString(serr), Data |-> <<daya[1]>>]

GetAyanamsaExUT(flag, daya, serr) ==
    [Flag |-> ToInt32(flag), Error |-> GoString(serr), Data |-> <<daya[1]>>]

Pheno(flag, attr, serr) ==
    [Flag  |-> ToInt32(flag),
     Error |-> GoString(serr),
     Data  |-> [i \in 1..20 |-> attr[i]]]

PhenoUT(flag, attr, serr) ==
    [Flag  |-> ToInt32(flag),
     Error |-> GoString(serr),
     Data  |-> [i \in 1..20 |-> attr[i]]]

RiseTrans(flag, tret, serr) ==
    [Flag |-> ToInt32(flag), Error |-> GoString(serr), Time |-> tret[1]]

RiseTransTrueHor(flag, tret, serr) ==
    [Flag |-> ToInt32(flag), Error |-> GoString(serr), Time |-> tret[1]]

\* The four 6-element native arrays xnasc, xndsc, xperi, xaphe are modelled as
\* one 24-element vector, in this order.
NodAps(flag, x, serr) ==
    [Flag       |-> ToInt32(flag),
     Error      |-> GoString(serr),
     Ascending  |-> [i \in 1..6 |-> x[i]],
     Descending |-> [i \in 1..6 |-> x[6 + i]],
     Perihelion |-> [i \in 1..6 |-> x[12 + i]],
     Aphelion   |-> [i \in 1..6 |-> x[18 + i]]]

NodApsUT(flag, x, serr) ==
    [Flag       |-> ToInt32(flag),
     Error      |-> GoString(serr),
     Ascending  |-> [i \in 1..6 |-> x[i]],
     Descending |-> [i \in 1..6 |-> x[6 + i]],
     Perihelion |-> [i \in 1..6 |-> x[12 + i]],
     Aphelion   |-> [i \in 1..6 |-> x[18 + i]]]

GetOrbitalElements(flag, dret, serr) ==
    [Flag     |-> ToInt32(flag),
     Error    |-> GoString(serr),
     Elements |-> [i \in 1..50 |-> dret[i]]]

\* The time and attribute values are copied only if flag >= 0.
HeliacalUT(flag, dret, serr) ==
    [Flag  |-> ToInt32(flag),
     Error |-> GoString(serr),
     Attr  |-> [i \in 1..47 |-> IF flag >= 0 THEN dret[3 + i] ELSE 0],
     Time  |-> [i \in 1..3 |-> IF flag >= 0 THEN dret[i] ELSE 0]]

HeliacalPhenoUT(flag, darr, serr) ==
    [Flag  |-> ToInt32(flag),
     Error |-> GoString(serr),
     Attr  |-> [i \in 1..50 |-> darr[i]]]

VisLimitMag(flag, dret, serr) ==
    [Flag  |-> ToInt32(flag),
     Error |-> GoString(serr),
     Attr  |-> [i \in 1..50 |-> dret[i]]]

(***************************************************************************)
(* Fixed star wrappers.  The star name goes in and comes out through       *)
(* starBuf, a zeroed buffer of MaxStname bytes that receives the bytes of  *)
(* the Go string.                                                          *)
(***************************************************************************)
MaxStname == 256

\* copy(dst, src) : copies min(len(dst), len(src)) bytes.
CopyBytes(dst, src) ==
    LET n == IF Len(src) < Len(dst) THEN Len(src) ELSE Len(dst)
    IN  SubSeq(src, 1, n) \o SubSeq(dst, n + 1, Len(dst))

\* starBuf := make([]byte, MaxStname); copy(starBuf, []byte(star))
StarBuf(star) == CopyBytes(ZeroBuf(MaxStname), star)

Fixstar(flag, xx, serr, starBuf) ==
    [Flag     |-> ToInt32(flag),
     Error    |-> GoString(serr),
     Data     |-> [i \in 1..6 |-> xx[i]],
     StarName |-> GoString(starBuf)]

FixstarUT(flag, xx, serr, starBuf) ==
    [Flag     |-> ToInt32(flag),
     Error    |-> GoString(serr),
     Data     |-> [i \in 1..6 |-> xx[i]],
     StarName |-> GoString(starBuf)]

\* mag holds the one double the native call writes.
FixstarMag(flag, mag, serr, starBuf) ==
    [Flag      |-> ToInt32(flag),
     Error     |-> GoString(serr),
     StarName  |-> GoString(starBuf),
     Magnitude |-> mag[1]]

Fixstar2(flag, xx, serr, starBuf) ==
    [Flag     |-> ToInt32(flag),
     Error    |-> GoString(serr),
     Data     |-> [i \in 1..6 |-> xx[i]],
     StarName |-> GoString(starBuf)]

Fixstar2UT(flag, xx, serr, starBuf) ==
    [Flag     |-> ToInt32(flag),
     Error    |-> GoString(serr),
     Data     |-> [i \in 1..6 |-> xx[i]],
     StarName |-> GoString(starBuf)]

Fixstar2Mag(flag, mag, serr, starBuf) ==
    [Flag      |-> ToInt32(flag),
     Error     |-> GoString(serr),
     StarName  |-> GoString(starBuf),
     Magnitude |-> mag[1]]

(***************************************************************************)
(* Eclipse and occultation wrappers.  The times are taken from tret and    *)
(* the attributes from attr only where the code does so; a field the code  *)
(* does not set keeps Go's zero value (0, or the nil slice <<>>).          *)
(***************************************************************************)
SolEclipseWhenLoc(flag, tret, attr, serr) ==
    [Flag     |-> ToInt32(flag),
     Error    |-> GoString(serr),
     Maximum  |-> IF flag >= 0 THEN tret[1] ELSE 0,
     Begin    |-> IF flag >= 0 THEN tret[2] ELSE 0,
     End      |-> IF flag >= 0 THEN tret[3] ELSE 0,
     Totality |-> IF flag >= 0 THEN tret[4] ELSE 0,
     Attr     |-> [i \in 1..20 |-> IF flag >= 0 THEN attr[i] ELSE 0]]

SolEclipseWhenGlob(flag, tret, serr) ==
    [Flag     |-> ToInt32(flag),
     Error    |-> GoString(serr),
     Maximum  |-> IF flag >= 0 THEN tret[1] ELSE 0,
     Begin    |-> IF flag >= 0 THEN tret[3] ELSE 0,
     End      |-> IF flag >= 0 THEN tret[4] ELSE 0,
     Totality |-> 0,
     Attr     |-> <<>>]

SolEclipseHow(flag, attr, serr) ==
    [Flag     |-> ToInt32(flag),
     Error    |-> GoString(serr),
     Maximum  |-> 0,
     Begin    |-> 0,
     End      |-> 0,
     Totality |-> 0,
     Attr     |-> [i \in 1..20 |-> attr[i]]]

SolEclipseWhere(flag, geopos, attr, serr) ==
    [Flag      |-> ToInt32(flag),
     Error     |-> GoString(serr),
     Attr      |-> [i \in 1..20 |-> attr[i]],
     Longitude |-> geopos[1],
     Latitude  |-> geopos[2]]

LunEclipseWhen(flag, tret, serr) ==
    [Flag     |-> ToInt32(flag),
     Error    |-> GoString(serr),
     Maximum  |-> IF flag >= 0 THEN tret[1] ELSE 0,
     Begin    |-> IF flag >= 0 THEN tret[3] ELSE 0,
     End      |-> IF flag >= 0 THEN tret[4] ELSE 0,
     Totality |-> IF flag >= 0 THEN tret[5] - tret[6] ELSE 0,
     Attr     |-> <<>>]

LunEclipseWhenLocUnguarded(flag, tret, attr, serr) ==
    [Flag     |-> ToInt32(flag),
     Error    |-> GoString(serr),
     Maximum  |-> tret[1],
     Begin    |-> tret[3],
     End      |-> tret[4],
     Totality |-> 0,
     Attr     |-> [i \in 1..20 |-> attr[i]]]

LunEclipseWhenLoc(flag, tret, attr, serr) ==
    [Flag     |-> ToInt32(flag),
     Error    |-> GoString(serr),
     Maximum  |-> IF flag >= 0 THEN tret[1] ELSE 0,
     Begin    |-> IF flag >= 0 THEN tret[3] ELSE 0,
     End      |-> IF flag >= 0 THEN tret[4] ELSE 0,
     Totality |-> 0,
     Attr     |-> [i \in 1..20 |-> IF flag >= 0 THEN attr[i] ELSE 0]]

LunEclipseHow(flag, attr, serr) ==
    [Flag     |-> ToInt32(flag),
     Error    |-> GoString(serr),
     Maximum  |-> 0,
     Begin    |-> 0,
     End      |-> 0,
     Totality |-> 0,
     Attr     |-> [i \in 1..20 |-> attr[i]]]

LunOccultWhenLoc(flag, tret, attr, serr) ==
    [Flag     |-> ToInt32(flag),
     Error    |-> GoString(serr),
     Maximum  |-> IF flag >= 0 THEN tret[1] ELSE 0,
     Begin    |-> IF flag >= 0 THEN tret[2] ELSE 0,
     End      |-> IF flag >= 0 THEN tret[3] ELSE 0,
     Totality |-> 0,
     Attr     |-> [i \in 1..20 |-> IF flag >= 0 THEN attr[i] ELSE 0]]

LunOccultWhenGlob(flag, tret, serr) ==
    [Flag     |-> ToInt32(flag),
     Error    |-> GoString(serr),
     Maximum  |-> IF flag >= 0 THEN tret[1] ELSE 0,
     Begin    |-> IF flag >= 0 THEN tret[3] ELSE 0,
     End      |-> IF flag >= 0 THEN tret[4] ELSE 0,
     Totality |-> 0,
     Attr     |-> <<>>]

LunOccultWhere(flag, geopos, attr, serr) ==
    [Flag      |-> ToInt32(flag),
     Error     |-> GoString(serr),
     Attr      |-> [i \in 1..20 |-> attr[i]],
     Longitude |-> geopos[1],
     Latitude  |-> geopos[2]]

(***************************************************************************)
(* House wrappers: HousesResult has the fields Flag, Houses and Points.    *)
(***************************************************************************)
HsysG == 71     \* 'G', Gauquelin sectors
HsysP == 80     \* 'P', Placidus

NumHousesTwelve(hsys, flag) == 12
NumHouses(hsys, flag) == IF hsys = HsysG /\ flag = OK THEN 36 ELSE 12

Houses(flag, hsys, cusps, ascmc) ==
    [Flag   |-> ToInt32(flag),
     Houses |-> [i \in 1..NumHouses(hsys, flag) |-> cusps[i + 1]],
     Points |-> [i \in 1..8 |-> ascmc[i]]]

HousesEx(flag, hsys, cusps, ascmc) ==
    [Flag   |-> ToInt32(flag),
     Houses |-> [i \in 1..NumHouses(hsys, flag) |-> cusps[i + 1]],
     Points |-> [i \in 1..8 |-> ascmc[i]]]

\* cuspSpeed, ascmcSpeed and serr are handed to the native call and not read.
HousesEx2(flag, hsys, cusps, ascmc, cuspSpeed, ascmcSpeed, serr) ==
    [Flag   |-> ToInt32(flag),
     Houses |-> [i \in 1..NumHouses(hsys, flag) |-> cusps[i + 1]],
     Points |-> [i \in 1..8 |-> ascmc[i]]]

HousesArmc(flag, hsys, cusps, ascmc) ==
    [Flag   |-> ToInt32(flag),
     Houses |-> [i \in 1..NumHouses(hsys, flag) |-> cusps[i + 1]],
     Points |-> [i \in 1..8 |-> ascmc[i]]]

HousesArmcEx2(flag, hsys, cusps, ascmc, cuspSpeed, ascmcSpeed, serr) ==
    [Flag   |-> ToInt32(flag),
     Houses |-> [i \in 1..NumHouses(hsys, flag) |-> cusps[i + 1]],
     Points |-> [i \in 1..8 |-> ascmc[i]]]

(***************************************************************************)
(* Wrappers returning (value, error): val holds the returned values, err   *)
(* the Go error.                                                           *)
(***************************************************************************)
Tuple(v, e) == [err |-> e, val |-> v]

\* What a wrapper without a return value returns.
Void == [val |-> <<>>]

\* "invalid date"
InvalidDate == <<105, 110, 118, 97, 108, 105, 100, 32, 100, 97, 116, 101>>

DateConversion(result, tjd) ==
    IF result = ERR THEN Tuple(<<0>>, Errorf(InvalidDate))
    ELSE Tuple(<<tjd[1]>>, NilErr)

UtcToJd(result, dretC, serr) ==
    IF result = ERR THEN Tuple(<<0, 0>>, Errorf(GoString(serr)))
    ELSE Tuple(<<dretC[1], dretC[2]>>, NilErr)

TimeEqu(result, e, serr) ==
    IF result = ERR THEN Tuple(<<0>>, Errorf(GoString(serr)))
    ELSE Tuple(<<e[1]>>, NilErr)

LmtToLat(result, tjdLat, serr) ==
    IF result = ERR THEN Tuple(<<0>>, Errorf(GoString(serr)))
    ELSE Tuple(<<tjdLat[1]>>, NilErr)

LatToLmt(result, tjdLmt, serr) ==
    IF result = ERR THEN Tuple(<<0>>, Errorf(GoString(serr)))
    ELSE Tuple(<<tjdLmt[1]>>, NilErr)

HelioCross(result, jdcross, serr) ==
    IF result = ERR THEN Tuple(<<0>>, Errorf(GoString(serr)))
    ELSE Tuple(<<jdcross[1]>>, NilErr)

HelioCrossUT(result, jdcross, serr) ==
    IF result = ERR THEN Tuple(<<0>>, Errorf(GoString(serr)))
    ELSE Tuple(<<jdcross[1]>>, NilErr)

\* d holds dmaxC, dminC, dtrueC.
OrbitMaxMinTrueDistance(result, d, serr) ==
    IF result = ERR THEN Tuple(<<0, 0, 0>>, Errorf(GoString(serr)))
    ELSE Tuple(<<d[1], d[2], d[3]>>, NilErr)

GauquelinSector(result, dgsect, serr) ==
    IF result = ERR THEN Tuple(<<0>>, Errorf(GoString(serr)))
    ELSE Tuple(<<dgsect[1]>>, NilErr)

\* pos is the double the native call returns.
HousePos(pos, serr) ==
    IF pos < 0 THEN Tuple(<<0>>, Errorf(GoString(serr)))
    ELSE Tuple(<<pos>>, NilErr)

\* The crossing functions and DeltatEx return a double and report through the
\* message buffer alone; the wrapper returns the double in both cases.
Solcross(jdcross, serr) ==
    IF GoString(serr) # <<>> THEN Tuple(<<jdcross>>, Errorf(GoString(serr)))
    ELSE Tuple(<<jdcross>>, NilErr)

SolcrossUT(jdcross, serr) ==
    IF GoString(serr) # <<>> THEN Tuple(<<jdcross>>, Errorf(GoString(serr)))
    ELSE Tuple(<<jdcross>>, NilErr)

Mooncross(jdcross, serr) ==
    IF GoString(serr) # <<>> THEN Tuple(<<jdcross>>, Errorf(GoString(serr)))
    ELSE Tuple(<<jdcross>>, NilErr)

MooncrossUT(jdcross, serr) ==
    IF GoString(serr) # <<>> THEN Tuple(<<jdcross>>, Errorf(GoString(serr)))
    ELSE Tuple(<<jdcross>>, NilErr)

\* x holds xlon, xlat; xlat is not returned.
MooncrossNode(jdcross, x, serr) ==
    IF GoString(serr) # <<>> THEN Tuple(<<jdcross, x[1]>>, Errorf(GoString(serr)))
    ELSE Tuple(<<jdcross, x[1]>>, NilErr)

MooncrossNodeUT(jdcross, x, serr) ==
    IF GoString(serr) # <<>> THEN Tuple(<<jdcross, x[1]>>, Errorf(GoString(serr)))
    ELSE Tuple(<<jdcross, x[1]>>, NilErr)

DeltatEx(dt, serr) ==
    IF GoString(serr) # <<>> THEN Tuple(<<dt>>, Errorf(GoString(serr)))
    ELSE Tuple(<<dt>>, NilErr)

(***************************************************************************)
(* The native library.  Its C source is not among the files of src/: the   *)
(* definitions of this section follow the specification's description of   *)
(* it (process-wide configuration, ephemeris files opened on first use     *)
(* and released by the shutdown call, a negative status and a message for  *)
(* an invalid object) and the flags the tests pass to select a setting.    *)
(***************************************************************************)
EclNut == -1
Sun == 0
NPlanets == 23
FlagSwieph == 2
FlagMoseph == 4
FlagTopoctr == 32768
FlagSidereal == 65536
SidmLahiri == 1
Tidal26 == -26
TidalDefault == -25     \* TidalDe431, -25.80 in the source
TidalAutomatic == 999999
DeltatAutomatic == -1   \* -1e-10 in the source: any value no user sets

\* The state behind the configuration calls, and the ephemeris files open.
SwedInit ==
    [ephepath |-> <<>>, jplfile |-> <<>>, sidmode |-> 0, topo |-> <<0, 0, 0>>,
     tidacc |-> TidalAutomatic, deltat |-> DeltatAutomatic, open |-> {}]

\* An ephemeris directory: the library's default location (NULL, <<>>) holds
\* no ephemeris files here, a configured directory does.
EpheDir == <<47, 101>>
HasFiles(path) == path = EpheDir

HasFlag(iflag, bit) == (iflag \div bit) % 2 = 1

ValidIpl(ipl) == EclNut <= ipl /\ ipl < NPlanets

\* "illegal planet number" and "ephemeris file not found, using Moshier"
IllegalPlanet == <<105, 108, 108, 101, 103, 97, 108>>
NoFileWarning == <<110, 111, 32, 102, 105, 108, 101>>

\* The six doubles of a position: one entry per thing the position depends
\* on.  which: 1 swe_calc, 2 swe_calc_ut, 3 swe_calc_pctr.
Position(which, s, ipl, iflag) ==
    << IF HasFlag(iflag, FlagSwieph) /\ HasFiles(s.ephepath) THEN 2 ELSE 1,
       IF HasFlag(iflag, FlagSidereal) THEN 1 + s.sidmode ELSE 0,
       IF HasFlag(iflag, FlagTopoctr) THEN 1 + s.topo[1] ELSE 0,
       s.tidacc,
       s.deltat,
       10 * which + ipl >>

\* One native calculation: <<status, message, xx, library state after it>>.
\* An invalid object is refused; a call that selects the Swiss Ephemeris
\* reads (and so opens) its file, or falls back to the built-in ephemeris
\* with a warning when the directory holds none.
sweph(which, s, ipl, iflag) ==
    IF ~ValidIpl(ipl) THEN <<ERR, IllegalPlanet, Zeros(6), s>>
    ELSE IF ~HasFlag(iflag, FlagSwieph)
    THEN <<iflag, <<>>, Position(which, s, ipl, iflag), s>>
    ELSE IF HasFiles(s.ephepath)
    THEN <<iflag, <<>>, Position(which, s, ipl, iflag),
           [s EXCEPT !.open = @ \cup {s.ephepath}]>>
    ELSE <<(iflag - FlagSwieph) + FlagMoseph, NoFileWarning,
           Position(which, s, ipl, iflag), s>>

swe_calc(s, ipl, iflag) == sweph(1, s, ipl, iflag)
swe_calc_ut(s, ipl, iflag) == sweph(2, s, ipl, iflag)
swe_calc_pctr(s, ipl, iflag) == sweph(3, s, ipl, iflag)

swe_set_ephe_path(s, path) == [s EXCEPT !.ephepath = path]
swe_set_jpl_file(s, fname) == [s EXCEPT !.jplfile = fname]
swe_set_sid_mode(s, sidMode, t0, ayanT0) == [s EXCEPT !.sidmode = sidMode]
swe_set_topo(s, geoLon, geoLat, altitude) ==
    [s EXCEPT !.topo = <<geoLon, geoLat, altitude>>]
swe_set_tid_acc(s, tidAcc) == [s EXCEPT !.tidacc = tidAcc]
\* TidalAutomatic is no acceleration: it selects the value that belongs to the
\* ephemeris, and that value is the current one.
swe_get_tid_acc(s) ==
    IF s.tidacc = TidalAutomatic THEN TidalDefault ELSE s.tidacc
swe_set_delta_t_userdef(s, dt) == [s EXCEPT !.deltat = dt]

\* The shutdown call releases the open files.  Whether it also forgets the
\* configuration is left open by the specification: forget chooses.
swe_close(s, forget) ==
    IF forget THEN SwedInit ELSE [s EXCEPT !.open = {}]

(***************************************************************************)
(* The wrappers of the configuration calls and of the calculation calls,   *)
(* as functions of the library state s: a configuration wrapper gives the  *)
(* library state after it, a calculation wrapper gives                     *)
(* <<result, library state after it, native outcome>>.                     *)
(***************************************************************************)
CloseNothing(s, forget) == s

Close(s, forget) == swe_close(s, forget)

\* path == "" passes NULL, which is <<>> too.
SetEphePath(s, path) ==
    IF path = <<>> THEN swe_set_ephe_path(s, <<>>)
    ELSE swe_set_ephe_path(s, path)

SetJplFile(s, fname) == swe_set_jpl_file(s, fname)
SetSidMode(s, sidMode, t0, ayanT0) ==
    swe_set_sid_mode(s, ToInt32(sidMode), t0, ayanT0)
SetTopo(s, geoLon, geoLat, altitude) == swe_set_topo(s, geoLon, geoLat, altitude)
SetTidAcc(s, tidAcc) == swe_set_tid_acc(s, tidAcc)
GetTidAccDefault(s) == [val |-> <<TidalDefault>>]
GetTidAcc(s) == [val |-> <<swe_get_tid_acc(s)>>]
SetDeltaTUserdef(s, dt) == swe_set_delta_t_userdef(s, dt)

CalcCallSetsPath(s, ipl, iflag) ==
    LET r == swe_calc(SetEphePath(s, <<>>), ToInt32(ipl), ToInt32(iflag))
    IN  <<Calc(r[1], r[3], NativeSerr(SerrLocal, r[2])), r[4], r>>

CalcCall(s, ipl, iflag) ==
    LET r == swe_calc(s, ToInt32(ipl), ToInt32(iflag))
    IN  <<Calc(r[1], r[3], NativeSerr(SerrLocal, r[2])), r[4], r>>

CalcUTCall(s, ipl, iflag) ==
    LET r == swe_calc_ut(s, ToInt32(ipl), ToInt32(iflag))
    IN  <<CalcUT(r[1], r[3], NativeSerr(SerrLocal, r[2])), r[4], r>>

CalcPctrCallSidereal(s, ipl, iflag) ==
    LET r == swe_calc_pctr(s, ToInt32(ipl), ToInt32(iflag) + FlagSidereal)
    IN  <<CalcPctr(r[1], r[3], NativeSerr(SerrLocal, r[2])), r[4], r>>

CalcPctrCall(s, ipl, iflag) ==
    LET r == swe_calc_pctr(s, ToInt32(ipl), ToInt32(iflag))
    IN  <<CalcPctr(r[1], r[3], NativeSerr(SerrLocal, r[2])), r[4], r>>

\* The threads of the host program, and a thread that is inside no wrapper
\* call and has made calls native invocations in its last one.
Threads == {1, 2}
Idle(n) == [fn |-> "", arg |-> <<>>, raced |-> FALSE, calls |-> n]

\* No earlier call kept.
NoMemo == [fn |-> "", res |-> Void, swed |-> SwedInit, arg |-> <<>>, seen |-> FALSE]

(***************************************************************************)
(* Spec: the wrappers over an arbitrary native outcome.                    *)
(***************************************************************************)
\* What a native call did: the value it returned, the message it reported
\* (<<>> when it reported none) and the values it wrote to its output arrays.
Native(f, st, m, o) ==
    [fn |-> f, msg |-> m, out |-> o, status |-> st]

NoCall == Native("", 0, <<>>, <<>>)

Init ==
    /\ fn = ""
    /\ nat = NoCall
    /\ res = Void
    /\ swed = SwedInit
    /\ arg = <<>>
    /\ memo = NoMemo
    /\ pc = [t \in Threads |-> Idle(0)]

Returns(f, n, r) ==
    /\ fn' = f
    /\ nat' = n
    /\ res' = r
    /\ arg' = <<>>
    /\ UNCHANGED <<swed, memo, pc>>

\* A wrapper whose native function returns an int status, writes n doubles and
\* takes a message buffer.
CallStatus(f, n, W(_, _, _)) ==
    \E status \in Statuses, msg \in Msgs, b \in Vals :
        LET out == OutVec(b, n)
            serr == NativeSerr(SerrLocal, msg)
        IN  Returns(f, Native(f, status, msg, out), W(status, out, serr))

\* A wrapper whose native function writes two output arrays.
CallStatus2(f, n1, n2, W(_, _, _, _)) ==
    \E status \in Statuses, msg \in Msgs, b \in Vals :
        LET out1 == OutVec(b, n1)
            out2 == OutVec(b + 1, n2)
            serr == NativeSerr(SerrLocal, msg)
        IN  Returns(f, Native(f, status, msg, out1 \o out2),
                    W(status, out1, out2, serr))

\* A fixed star wrapper: the native function may replace the name in starBuf
\* by the name found in the star catalogue.
CatalogueName(star) == <<66>> \o star

\* C.CString(s): a copy of s in a new C buffer of Len(s) + 1 bytes.
CString(s) == s \o <<0>>

\* The outcome n of a native call that takes a name: cin is the name the
\* caller gave, cbuf the size of the buffer the wrapper passed it in (buf0),
\* cname the name in the buffer when the native call returned (buf1).
NativeNamed(n, star, buf0, buf1) ==
    [fn |-> n.fn, msg |-> n.msg, out |-> n.out, status |-> n.status,
     cin |-> star, cbuf |-> Len(buf0), cname |-> GoString(buf1)]

\* The names a caller gives: none and "A".
Names == {<<>>, <<65>>}

CallFixstar(f, n, W(_, _, _, _)) ==
    \E status \in Statuses, msg \in Msgs, b \in Vals, star \in Names,
       found \in BOOLEAN :
        LET out == OutVec(b, n)
            serr == NativeSerr(SerrLocal, msg)
            starBuf == IF found THEN WriteCStr(StarBuf(star), CatalogueName(star))
                       ELSE StarBuf(star)
        IN  Returns(f, NativeNamed(Native(f, status, msg, out), star,
                                   StarBuf(star), starBuf),
                    W(status, out, serr, starBuf))

\* A fixed star wrapper given a name of MaxStname - 1 or of MaxStname bytes,
\* which the catalogue does not hold.  C.GoString(cStar) reads from the start
\* of starBuf to the first NUL, through the bytes that follow the buffer in
\* memory (after) if the buffer holds none.
CallFixstarLong(f, n, W(_, _, _, _)) ==
    \E status \in Statuses, len \in {MaxStname - 1, MaxStname},
       after \in {<<0>>, <<66, 0>>} :
        LET out == OutVec(0, n)
            star == [i \in 1..len |-> 65]
            memory == StarBuf(star) \o after
        IN  Returns(f, NativeNamed(Native(f, status, <<>>, out), star,
                                   StarBuf(star), memory),
                    W(status, out, SerrLocal, memory))

\* A wrapper that passes a name as C.CString(name) and frees it after the
\* native call.
CallNamed(f, n, W(_, _, _)) ==
    \E status \in Statuses, msg \in Msgs, b \in {0}, star \in Names,
       found \in BOOLEAN :
        LET out == OutVec(b, n)
            serr == NativeSerr(SerrLocal, msg)
            cStar == CString(star)
            after == IF found THEN WriteCStr(cStar, CatalogueName(star))
                     ELSE cStar
        IN  Returns(f, NativeNamed(Native(f, status, msg, out), star, cStar,
                                   after),
                    W(status, out, serr))

CallNamed2(f, n1, n2, W(_, _, _, _)) ==
    \E status \in Statuses, msg \in Msgs, b \in {0}, star \in Names,
       found \in BOOLEAN :
        LET out1 == OutVec(b, n1)
            out2 == OutVec(b + 1, n2)
            serr == NativeSerr(SerrLocal, msg)
            cStar == CString(star)
            after == IF found THEN WriteCStr(cStar, CatalogueName(star))
                     ELSE cStar
        IN  Returns(f, NativeNamed(Native(f, status, msg, out1 \o out2), star,
                                   cStar, after),
                    W(status, out1, out2, serr))

\* A wrapper whose native function returns a double and takes a message buffer.
CallDouble(f, W(_, _)) ==
    \E d \in Statuses, msg \in Msgs :
        LET serr == NativeSerr(SerrLocal, msg)
        IN  Returns(f, Native(f, d, msg, <<>>), W(d, serr))

\* A wrapper whose native function returns a double and writes n doubles.
CallDoubleOut(f, n, W(_, _, _)) ==
    \E d \in Statuses, msg \in Msgs, b \in Vals :
        LET x == OutVec(b, n)
            serr == NativeSerr(SerrLocal, msg)
        IN  Returns(f, Native(f, d, msg, x), W(d, x, serr))

\* swe_date_conversion takes no message buffer.
CallDateConversion ==
    \E status \in Statuses, b \in Vals :
        LET tjd == OutVec(b, 1)
        IN  Returns("DateConversion", Native("DateConversion", status, <<>>, tjd),
                    DateConversion(status, tjd))

\* The house functions write cusps[0..36] and ascmc[0..9]; the Ex2 functions
\* also write the two speed arrays and take a message buffer.  arg keeps the
\* house system of the call.
HouseSystems == {HsysP, HsysG}

CallHouses(f, W(_, _, _, _)) ==
    \E status \in Statuses, hsys \in HouseSystems, b \in Vals :
        LET cusps == OutVec(b, 37)
            ascmc == OutVec(b + 1, 10)
        IN  /\ fn' = f
            /\ nat' = Native(f, status, <<>>, cusps \o ascmc)
            /\ res' = W(status, hsys, cusps, ascmc)
            /\ arg' = <<hsys>>
            /\ UNCHANGED <<swed, memo, pc>>

CallHousesEx2(f, W(_, _, _, _, _, _, _)) ==
    \E status \in Statuses, msg \in Msgs, hsys \in HouseSystems, b \in Vals :
        LET cusps == OutVec(b, 37)
            ascmc == OutVec(b + 1, 10)
            cuspSpeed == OutVec(b + 2, 37)
            ascmcSpeed == OutVec(b + 3, 10)
            serr == NativeSerr(SerrLocal, msg)
        IN  /\ fn' = f
            /\ nat' = Native(f, status, msg,
                             cusps \o ascmc \o cuspSpeed \o ascmcSpeed)
            /\ res' = W(status, hsys, cusps, ascmc, cuspSpeed, ascmcSpeed, serr)
            /\ arg' = <<hsys>>
            /\ UNCHANGED <<swed, memo, pc>>

\* One call of any exported wrapper that makes a native call with output.
Next ==
    \/ CallHousesEx2("HousesEx2", HousesEx2)
    \/ CallHousesEx2("HousesArmcEx2", HousesArmcEx2)
    \/ CallHouses("Houses", Houses)
    \/ CallHouses("HousesEx", HousesEx)
    \/ CallHouses("HousesArmc", HousesArmc)
    \/ CallDouble("HousePos", HousePos)
    \/ CallStatus("Calc", 6, Calc)
    \/ CallStatus("CalcUT", 6, CalcUT)
    \/ CallStatus("CalcPctr", 6, CalcPctr)
    \/ CallStatus("GetAyanamsaEx", 1, GetAyanamsaEx)
    \/ CallStatus("GetAyanamsaExUT", 1, GetAyanamsaExUT)
    \/ CallStatus("Pheno", 20, Pheno)
    \/ CallStatus("PhenoUT", 20, PhenoUT)
    \/ CallNamed("RiseTrans", 1, RiseTrans)
    \/ CallNamed("RiseTransTrueHor", 1, RiseTransTrueHor)
    \/ CallStatus("NodAps", 24, NodAps)
    \/ CallStatus("NodApsUT", 24, NodApsUT)
    \/ CallStatus("GetOrbitalElements", 50, GetOrbitalElements)
    \/ CallNamed("HeliacalUT", 50, HeliacalUT)
    \/ CallNamed("HeliacalPhenoUT", 50, HeliacalPhenoUT)
    \/ CallNamed("VisLimitMag", 50, VisLimitMag)
    \/ CallFixstar("Fixstar", 6, Fixstar)
    \/ CallFixstar("FixstarUT", 6, FixstarUT)
    \/ CallFixstar("FixstarMag", 1, FixstarMag)
    \/ CallFixstar("Fixstar2", 6, Fixstar2)
    \/ CallFixstar("Fixstar2UT", 6, Fixstar2UT)
    \/ CallFixstar("Fixstar2Mag", 1, Fixstar2Mag)
    \/ CallFixstarLong("Fixstar", 6, Fixstar)
    \/ CallFixstarLong("FixstarUT", 6, FixstarUT)
    \/ CallFixstarLong("FixstarMag", 1, FixstarMag)
    \/ CallFixstarLong("Fixstar2", 6, Fixstar2)
    \/ CallFixstarLong("Fixstar2UT", 6, Fixstar2UT)
    \/ CallFixstarLong("Fixstar2Mag", 1, Fixstar2Mag)
    \/ CallStatus2("SolEclipseWhenLoc", 10, 20, SolEclipseWhenLoc)
    \/ CallStatus("SolEclipseWhenGlob", 10, SolEclipseWhenGlob)
    \/ CallStatus("SolEclipseHow", 20, SolEclipseHow)
    \/ CallStatus2("SolEclipseWhere", 2, 20, SolEclipseWhere)
    \/ CallStatus("LunEclipseWhen", 10, LunEclipseWhen)
    \/ CallStatus2("LunEclipseWhenLoc", 10, 20, LunEclipseWhenLoc)
    \/ CallStatus("LunEclipseHow", 20, LunEclipseHow)
    \/ CallNamed2("LunOccultWhenLoc", 10, 20, LunOccultWhenLoc)
    \/ CallNamed("LunOccultWhenGlob", 10, LunOccultWhenGlob)
    \/ CallNamed2("LunOccultWhere", 2, 20, LunOccultWhere)
    \/ CallDateConversion
    \/ CallStatus("UtcToJd", 2, UtcToJd)
    \/ CallStatus("TimeEqu", 1, TimeEqu)
    \/ CallStatus("LmtToLat", 1, LmtToLat)
    \/ CallStatus("LatToLmt", 1, LatToLmt)
    \/ CallStatus("HelioCross", 1, HelioCross)
    \/ CallStatus("HelioCrossUT", 1, HelioCrossUT)
    \/ CallStatus("OrbitMaxMinTrueDistance", 3, OrbitMaxMinTrueDistance)
    \/ CallNamed("GauquelinSector", 1, GauquelinSector)
    \/ CallDouble("Solcross", Solcross)
    \/ CallDouble("SolcrossUT", SolcrossUT)
    \/ CallDouble("Mooncross", Mooncross)
    \/ CallDouble("MooncrossUT", MooncrossUT)
    \/ CallDouble("DeltatEx", DeltatEx)
    \/ CallDoubleOut("MooncrossNode", 2, MooncrossNode)
    \/ CallDoubleOut("MooncrossNodeUT", 2, MooncrossNodeUT)
    \* A local eclipse or occultation whose instants are in their order in
    \* time: first contact tret[1], second tret[2], maximum tret[0], third
    \* tret[3], fourth tret[4].
    \/ \E status \in Statuses, msg \in Msgs :
           LET tret == <<30, 10, 20, 40, 50, 60, 70, 80, 90, 100>>
               attr == OutVec(1, 20)
               serr == NativeSerr(SerrLocal, msg)
               none == CString(<<>>)
           IN  \/ Returns("SolEclipseWhenLoc",
                          Native("SolEclipseWhenLoc", status, msg, tret \o attr),
                          SolEclipseWhenLoc(status, tret, attr, serr))
               \/ Returns("LunOccultWhenLoc",
                          NativeNamed(Native("LunOccultWhenLoc", status, msg,
                                             tret \o attr),
                                      <<>>, none, none),
                          LunOccultWhenLoc(status, tret, attr, serr))

Spec == Init /\ [][Next]_vars

(***************************************************************************)
(* SpecLib: the configuration, shutdown and calculation calls over the     *)
(* native library.  memo keeps one earlier calculation call, chosen        *)
(* freely; a configuration call or Close drops it.                         *)
(* SpecCfg: the calculation calls and the three configuration calls of     *)
(* ephemeris path, sidereal mode and topocentric location; memo survives   *)
(* them, so that calls before and after a change are compared.             *)
(***************************************************************************)
Iflags ==
    {FlagMoseph, FlagSwieph, FlagSwieph + FlagSidereal, FlagSwieph + FlagTopoctr}

\* <<ipl, iflag>> of a calculation call: the Sun under each flag set, and an
\* object id below and one above the range the library knows.
Inputs ==
    {<<Sun, iflag>> : iflag \in Iflags}
        \cup {<<EclNut - 1, FlagSwieph>>, <<NPlanets, FlagMoseph>>}

\* The configuration in library state s.
Config(s) == [s EXCEPT !.open = {}]

\* A call with the function and input of the kept call is compared with it
\* (seen); any other call may replace it.
Remember(f, a, r) ==
    IF memo.fn = f /\ memo.arg = a THEN {[memo EXCEPT !.seen = TRUE]}
    ELSE {[memo EXCEPT !.seen = FALSE],
          [fn |-> f, res |-> r, swed |-> Config(swed), arg |-> a, seen |-> FALSE]}

LibCalc(f, C(_, _, _)) ==
    \E in \in Inputs :
        \E c \in {C(swed, in[1], in[2])} :
            /\ fn' = f
            /\ nat' = Native(f, c[3][1], c[3][2], c[3][3])
            /\ res' = c[1]
            /\ swed' = c[2]
            /\ arg' = in
            /\ memo' \in Remember(f, in, c[1])
            /\ pc' = pc

\* A call that is no calculation: s is the library state after it, r what it
\* returns.
LibCall(f, s, r, keep) ==
    /\ fn' = f
    /\ nat' = NoCall
    /\ res' = r
    /\ swed' = s
    /\ arg' = <<>>
    /\ memo' = IF keep THEN [memo EXCEPT !.seen = FALSE] ELSE NoMemo
    /\ pc' = pc

\* nat.out of Close: how many files swe_close released.
DoClose ==
    \E forget \in BOOLEAN :
        /\ fn' = "Close"
        /\ nat' = Native("Close", OK, <<>>, <<Cardinality(swed.open)>>)
        /\ res' = Void
        /\ swed' = Close(swed, forget)
        /\ arg' = <<>>
        /\ memo' = NoMemo
        /\ pc' = pc

DoSetEphePath(keep) ==
    \E path \in {<<>>, EpheDir} :
        LibCall("SetEphePath", SetEphePath(swed, path), Void, keep)

DoSetSidMode(keep) ==
    \E sidMode \in {0, SidmLahiri} :
        LibCall("SetSidMode", SetSidMode(swed, sidMode, 0, 0), Void, keep)

DoSetTopo(keep) ==
    \E geo \in {0, 1} :
        LibCall("SetTopo", SetTopo(swed, geo, geo, 0), Void, keep)

NextLib ==
    \/ LibCalc("Calc", CalcCall)
    \/ LibCalc("CalcUT", CalcUTCall)
    \/ LibCalc("CalcPctr", CalcPctrCall)
    \/ DoSetEphePath(FALSE)
    \/ DoSetSidMode(FALSE)
    \/ DoSetTopo(FALSE)
    \/ \E fname \in {<<>>, <<100, 101>>} :
           LibCall("SetJplFile", SetJplFile(swed, fname), Void, FALSE)
    \/ \E tidAcc \in {TidalAutomatic, Tidal26} :
           LibCall("SetTidAcc", SetTidAcc(swed, tidAcc), Void, FALSE)
    \/ \E dt \in {DeltatAutomatic, 64} :
           LibCall("SetDeltaTUserdef", SetDeltaTUserdef(swed, dt), Void, FALSE)
    \/ LibCall("GetTidAcc", swed, GetTidAcc(swed), TRUE)
    \/ DoClose

SpecLib == Init /\ [][NextLib]_vars

NextCfg ==
    \/ LibCalc("Calc", CalcCall)
    \/ LibCalc("CalcUT", CalcUTCall)
    \/ LibCalc("CalcPctr", CalcPctrCall)
    \/ DoSetEphePath(TRUE)
    \/ DoSetSidMode(TRUE)
    \/ DoSetTopo(TRUE)

SpecCfg == Init /\ [][NextCfg]_vars

(***************************************************************************)
(* SpecThr: two threads call wrappers with nothing serializing them.  A    *)
(* thread enters a wrapper (the wrapper makes its native call) and later   *)
(* the native call returns and the wrapper returns with it.  A native call *)
(* that overlaps a call writing the library's global state is a data race: *)
(* its outcome is any status, message and output.                          *)
(***************************************************************************)
CalcFns == {"Calc", "CalcUT", "CalcPctr"}

ConfigFns ==
    {"SetEphePath", "SetSidMode", "SetTopo", "SetTidAcc", "SetDeltaTUserdef",
     "Close"}

\* <<wrapper, argument>> of the calls a thread makes.
ThreadCalls ==
    {<<"Calc", <<Sun, FlagSwieph>>>>, <<"CalcUT", <<Sun, FlagMoseph>>>>,
     <<"CalcPctr", <<NPlanets, FlagMoseph>>>>, <<"SetEphePath", EpheDir>>,
     <<"SetSidMode", <<SidmLahiri>>>>, <<"SetTopo", <<0>>>>,
     <<"SetTidAcc", <<TidalAutomatic>>>>,
     <<"SetDeltaTUserdef", <<DeltatAutomatic>>>>, <<"Close", <<>>>>,
     <<"UtcToJd", <<>>>>, <<"RiseTrans", <<>>>>}

\* The native call of wrapper f writes the library's global state: a
\* configuration call, Close, and a calculation that reads ephemeris files.
Writer(f, a) ==
    f \in ConfigFns \/ (f \in CalcFns /\ HasFlag(a[2], FlagSwieph))

\* A wrapper under one lock for all calls: entered only when no thread is
\* inside a call.
CanEnterLocked(t) == \A u \in Threads : pc[u].fn = ""

\* What a wrapper waits for before its native call: nothing.
CanEnter(t) == pc[t].fn = ""

Enter(t) ==
    /\ CanEnter(t)
    /\ \E c \in ThreadCalls :
           LET race == \E u \in Threads \ {t} :
                           /\ pc[u].fn # ""
                           /\ Writer(c[1], c[2]) \/ Writer(pc[u].fn, pc[u].arg)
           IN  pc' = [u \in Threads |->
                         IF u = t
                         THEN [fn |-> c[1], arg |-> c[2], raced |-> race,
                               calls |-> 1]
                         ELSE IF race /\ pc[u].fn # ""
                         THEN [pc[u] EXCEPT !.raced = TRUE]
                         ELSE pc[u]]
    /\ UNCHANGED <<fn, nat, res, swed, arg, memo>>

\* A wrapper that calls the native function again after a negative status.
AfterNativeRetry(c, status) ==
    IF status < 0 /\ c.calls < 2 THEN [c EXCEPT !.calls = @ + 1]
    ELSE Idle(c.calls)

\* What the wrapper inside call c does when its native call has returned
\* status: it returns to its caller.
AfterNative(c, status) == Idle(c.calls)

\* The ways the native call of call c can return in library state s:
\* <<result of the wrapper, library state after it, native outcome>>.
NativeReturn(c, s) ==
    LET W(status, out, serr) ==
            IF c.fn = "Calc" THEN Calc(status, out, serr)
            ELSE IF c.fn = "CalcUT" THEN CalcUT(status, out, serr)
            ELSE IF c.fn = "CalcPctr" THEN CalcPctr(status, out, serr)
            ELSE IF c.fn = "UtcToJd" THEN UtcToJd(status, out, serr)
            ELSE RiseTrans(status, out, serr)
        Arbitrary(s2) ==
            {<<W(status, OutVec(b, 6), NativeSerr(SerrLocal, msg)), s2,
               <<status, msg, OutVec(b, 6)>>>> :
                 status \in Statuses, msg \in Msgs, b \in {0}}
        set == IF c.fn = "SetEphePath" THEN SetEphePath(s, c.arg)
               ELSE IF c.fn = "SetSidMode" THEN SetSidMode(s, c.arg[1], 0, 0)
               ELSE IF c.fn = "SetTopo"
               THEN SetTopo(s, c.arg[1], c.arg[1], 0)
               ELSE IF c.fn = "SetTidAcc" THEN SetTidAcc(s, c.arg[1])
               ELSE IF c.fn = "SetDeltaTUserdef"
               THEN SetDeltaTUserdef(s, c.arg[1])
               ELSE Close(s, TRUE)
    IN  IF c.fn \in ConfigFns
        THEN {<<Void, s2, <<OK, <<>>, <<>>>>>> :
                 s2 \in IF c.raced THEN {s, set} ELSE {set}}
        ELSE IF c.fn \notin CalcFns \/ c.raced THEN Arbitrary(s)
        ELSE IF c.fn = "Calc" THEN {CalcCall(s, c.arg[1], c.arg[2])}
        ELSE IF c.fn = "CalcUT" THEN {CalcUTCall(s, c.arg[1], c.arg[2])}
        ELSE {CalcPctrCall(s, c.arg[1], c.arg[2])}

Exit(t) ==
    /\ pc[t].fn # ""
    /\ \E o \in NativeReturn(pc[t], swed) :
           /\ fn' = pc[t].fn
           /\ nat' = Native(pc[t].fn, o[3][1], o[3][2], o[3][3])
           /\ res' = o[1]
           /\ swed' = o[2]
           /\ arg' = IF pc[t].fn \in CalcFns THEN pc[t].arg ELSE <<>>
           /\ pc' = [pc EXCEPT ![t] = AfterNative(pc[t], o[3][1])]
    /\ UNCHANGED memo

SpecThr == Init /\ [][\E t \in Threads : Enter(t) \/ Exit(t)]_vars

(***************************************************************************)
(* Properties of the wrappers over an arbitrary native outcome.            *)
(***************************************************************************)
\* C1: Calc, CalcUT and CalcPctr return, for every native outcome (negative
\* status included), Flag = the native return value, Error = the message in the
\* native buffer, and Data = exactly the six native output doubles in order.
C1_CalcFaithful ==
    fn \in CalcFns =>
        /\ res.Flag = nat.status
        /\ res.Error = nat.msg
        /\ Len(res.Data) = 6
        /\ \A i \in 1..6 : res.Data[i] = nat.out[i]

C1_Witness ==
    /\ fn \in CalcFns
    /\ nat.status < 0
    /\ nat.msg # <<>>
    /\ res.Flag < 0
    /\ res.Error = nat.msg
    /\ res.Data[6] = nat.out[6]

\* The wrappers whose native function takes no message buffer.
NoSerrFns == {"Houses", "HousesEx", "HousesArmc", "DateConversion"}

\* The wrappers whose native function returns a double and reports failure
\* through the message buffer alone.
MsgOnlyFns ==
    {"Solcross", "SolcrossUT", "Mooncross", "MooncrossUT", "MooncrossNode",
     "MooncrossNodeUT", "DeltatEx"}

\* The native call of the last wrapper call reported failure.
NativeFailed ==
    IF fn \in MsgOnlyFns THEN nat.msg # <<>> ELSE nat.status < 0

\* The caller of the last wrapper call has the native message: in the result's
\* Error field, or as the returned error value.
MessageAvailable ==
    \/ "Error" \in DOMAIN res /\ res.Error = nat.msg
    \/ "err" \in DOMAIN res /\ ~res.err.nil /\ res.err.msg = nat.msg

\* C2: no wrapper swallows a native diagnostic: when a native function that
\* takes a message buffer reports failure, the caller gets the message, in the
\* Error field or as the error value; HousesEx2, HousesArmcEx2 and HousePos
\* included.
C2_NoSwallowedDiagnostic ==
    (fn # "" /\ fn \notin NoSerrFns /\ NativeFailed /\ nat.msg # <<>>)
        => MessageAvailable

C2_Witness ==
    /\ fn \in {"HousesEx2", "HousesArmcEx2"}
    /\ nat.status < 0
    /\ nat.msg # <<>>
    /\ DOMAIN res = {"Flag", "Houses", "Points"}

ErrFns ==
    {"DateConversion", "UtcToJd", "TimeEqu", "LmtToLat", "LatToLmt", "HelioCross",
     "HelioCrossUT", "OrbitMaxMinTrueDistance", "GauquelinSector"}

\* C3: every wrapper that converts the native status into a Go error returns a
\* non-nil error for every negative native status and a nil error for every
\* non-negative one.
C3_NegativeStatusIsError ==
    fn \in ErrFns => (nat.status < 0 <=> ~res.err.nil)

C3_Witness ==
    /\ fn \in ErrFns
    /\ nat.status < ERR
    /\ res.err.nil
    /\ res.val = [i \in 1..Len(res.val) |-> nat.out[i]]

\* C4: no wrapper returning (value, error) returns a non-nil error together
\* with a non-zero result value.
C4_AllOrNothing ==
    ("err" \in DOMAIN res /\ ~res.err.nil) => \A i \in 1..Len(res.val) : res.val[i] = 0

C4_Witness ==
    /\ fn \in MsgOnlyFns
    /\ ~res.err.nil
    /\ res.err.msg = nat.msg
    /\ res.val[1] = nat.status
    /\ res.val[1] # 0

\* C5 as stated: in every record with Flag and Error, Error is non-empty only
\* if Flag is negative, whatever the native call wrote into the message buffer.
C5_ErrorOnlyOnFailure ==
    "Error" \in DOMAIN res => (res.Error # <<>> => res.Flag < 0)

\* C5, amended: in every record with Flag and Error, Error is non-empty exactly
\* when the native call wrote a message into the buffer, whatever the Flag: a
\* message written by a call that returns a non-negative status reaches the
\* caller in Error.
C5_ErrorIffNativeMessage ==
    "Error" \in DOMAIN res => (res.Error # <<>> <=> nat.msg # <<>>)

C5_Witness ==
    /\ fn \in CalcFns
    /\ res.Flag >= 0
    /\ res.Error # <<>>
    /\ res.Error = nat.msg

(***************************************************************************)
(* Properties of the calls over the native library.                        *)
(***************************************************************************)
\* C6: a calculation call (Calc, CalcUT, CalcPctr) with an object identifier
\* that is not a valid one returns a negative Flag and a non-empty Error.
C6_InvalidObjectFails ==
    (fn \in CalcFns /\ ~ValidIpl(arg[1])) => (res.Flag < 0 /\ res.Error # <<>>)

C6_Witness ==
    /\ fn \in CalcFns
    /\ arg[1] = NPlanets
    /\ res.Flag = ERR
    /\ res.Error = IllegalPlanet

\* C7: a calculation call with the function and inputs of an earlier one, with
\* no configuration call and no Close between the two, returns the Flag, Error
\* and Data the earlier one returned, whatever calculation calls were made in
\* between.
C7_Deterministic ==
    (memo.seen /\ memo.fn = fn /\ memo.arg = arg) => res = memo.res

C7_Witness ==
    /\ memo.seen
    /\ fn \in CalcFns
    /\ arg = <<Sun, FlagSwieph>>
    /\ swed.open # {}
    /\ res.Flag >= 0
    /\ res = memo.res

\* The last call has the function and inputs of the kept call, and between the
\* two the ephemeris path, the sidereal mode or the topocentric location was
\* changed.
ChangedSince ==
    /\ memo.seen
    /\ \/ memo.swed.ephepath # swed.ephepath
       \/ memo.swed.sidmode # swed.sidmode
       \/ memo.swed.topo # swed.topo

\* The flags of the last call select a setting that differs from what it was
\* at the kept call, and its object is one the library computes.
SelectedChangedSince ==
    /\ memo.seen
    /\ ValidIpl(arg[1])
    /\ \/ HasFlag(arg[2], FlagSwieph) /\ memo.swed.ephepath # swed.ephepath
       \/ HasFlag(arg[2], FlagSidereal) /\ memo.swed.sidmode # swed.sidmode
       \/ HasFlag(arg[2], FlagTopoctr) /\ memo.swed.topo # swed.topo

C9_CalcKeepsConfiguration ==
    [][fn' \in CalcFns \cup {"GetTidAcc"} => Config(swed') = Config(swed)]_vars

C9_Witness ==
    /\ fn \in CalcFns
    /\ memo.seen
    /\ swed.ephepath = EpheDir
    /\ swed.sidmode = SidmLahiri
    /\ swed.topo = <<1, 1, 0>>
    /\ swed.tidacc = Tidal26
    /\ swed.deltat = 64

\* The call with inputs in reads the Swiss Ephemeris files of library state s.
NeedsFile(s, in) ==
    ValidIpl(in[1]) /\ HasFlag(in[2], FlagSwieph) /\ HasFiles(s.ephepath)

\* C10: a calculation call that needs the ephemeris files opens them, only a
\* calculation call opens a file, every call but Close leaves the open files
\* open, and no file is open right after Close; a calculation call right after
\* Close succeeds (non-negative Flag for a valid object) and has open exactly
\* the files it needs.
C10_FilesScopedByClose ==
    [][/\ (fn' \in CalcFns /\ NeedsFile(swed, arg')) => swed.ephepath \in swed'.open
       /\ fn' \notin CalcFns => swed'.open \subseteq swed.open
       /\ fn' # "Close" => swed.open \subseteq swed'.open
       /\ fn' = "Close" => swed'.open = {}
       /\ (fn = "Close" /\ fn' \in CalcFns /\ ValidIpl(arg'[1])) =>
              /\ res'.Flag >= 0
              /\ swed'.open = IF NeedsFile(swed, arg') THEN {swed.ephepath}
                              ELSE {}]_vars

C10_Witness ==
    /\ fn = "Close"
    /\ nat.out = <<1>>
    /\ swed.open = {}
    /\ swed.ephepath = EpheDir

(***************************************************************************)
(* Properties of the wrappers called from two threads.                     *)
(***************************************************************************)
\* C11: the shim performs no locking: a thread that is inside no call can
\* enter any wrapper whatever call the other thread is inside, so a
\* configuration call and a calculation call can be inside the native library
\* at once; and the wrappers share no mutable state of their own: the Flag and
\* Error a calculation wrapper returns are those of its own native call.
C11_NoLocking ==
    /\ \A t \in Threads : pc[t].fn = "" => ENABLED Enter(t)
    /\ fn \in CalcFns => (res.Flag = nat.status /\ res.Error = nat.msg)

C11_Witness ==
    \E t, u \in Threads :
        /\ pc[t].fn \in ConfigFns
        /\ pc[u].fn \in CalcFns
        /\ pc[t].raced
        /\ pc[u].raced

\* C12: every wrapper call makes its native call exactly once, also when the
\* native call reports failure: a thread inside a call has made one native
\* invocation, and a thread that has returned made no second one.
C12_NoRetry ==
    \A t \in Threads :
        /\ pc[t].calls <= 1
        /\ pc[t].fn # "" => pc[t].calls = 1

C12_Witness ==
    /\ fn = "RiseTrans"
    /\ nat.status < 0
    /\ res.Flag = nat.status
    /\ \A t \in Threads : pc[t] = Idle(1)

(***************************************************************************)
(* Properties of the marshalling of names and native outputs.              *)
(***************************************************************************)
\* C13: every wrapper that takes an object or star name passes it to the
\* native library in a buffer of MaxStname bytes and, when the native library
\* has rewritten the name, returns the rewritten name to the caller.
C13_NamesInFixedBuffers ==
    "cbuf" \in DOMAIN nat =>
        /\ nat.cbuf = MaxStname
        /\ nat.cname # nat.cin =>
               ("StarName" \in DOMAIN res /\ res.StarName = nat.cname)

C13_Witness ==
    /\ fn = "RiseTrans"
    /\ nat.cin = <<65>>
    /\ nat.cbuf = 2
    /\ nat.cname = CatalogueName(nat.cin)
    /\ DOMAIN res = {"Flag", "Error", "Time"}

\* C14: every wrapper marshals back to its caller every value its native call
\* wrote into the output parameters: after a native call that did not fail,
\* each native output value is among the values of the result.
C14_NoOutputDropped ==
    LET scalar(k) ==
            \/ k \in {"Flag", "Maximum", "Begin", "End", "Totality",
                      "Longitude", "Latitude", "Magnitude"}
            \/ k = "Time" /\ "Attr" \notin DOMAIN res
        marshalled ==
            UNION {IF scalar(k) THEN {res[k]}
                   ELSE {res[k][i] : i \in DOMAIN res[k]} :
                       k \in DOMAIN res \ {"err"}}
    IN  (fn # "" /\ ~NativeFailed) =>
            \A i \in 1..Len(nat.out) : nat.out[i] \in marshalled

C14_Witness ==
    /\ fn = "MooncrossNode"
    /\ nat.msg = <<>>
    /\ res.err.nil
    /\ res.val = <<nat.status, nat.out[1]>>
    /\ nat.out[2] # nat.out[1]

(***************************************************************************)
(* SpecFn: the wrappers of the pure native functions.  A double is kept in *)
(* fixed point: an angle as a whole number of half degrees, a Julian day   *)
(* as a whole number of 1/48 days, an hour as a whole number of half       *)
(* hours, so that 375.5 degrees is 751 and 12h is 24.                      *)
(***************************************************************************)
JulCal == 0
GregCal == 1

\* Largest angle given to the angle functions, in half degrees, and the
\* largest year given to the calendar functions.
MaxAngle == 1500
MaxYear == 4712

\* swe_degnorm: y = fmod(x, 360), which has the sign of x; a negative y is
\* moved up by one turn.
swe_degnorm(x) ==
    LET turn == 2 * 360
        fmod(a, m) == IF a >= 0 THEN a % m ELSE 0 - ((0 - a) % m)
        y == fmod(x, turn)
    IN  IF y < 0 THEN y + turn ELSE y

DegnormNoWrap(x) == IF x >= 0 THEN x % (2 * 360) ELSE 0 - ((0 - x) % (2 * 360))
Degnorm(x) == swe_degnorm(x)

DifdegnUnnormalised(p1, p2) == p1 - p2
Difdegn(p1, p2) ==
    LET swe_difdegn(a, b) == swe_degnorm(a - b)
    IN  swe_difdegn(p1, p2)

\* swe_julday: the day number of a calendar date at hour, counted in the
\* Julian calendar and moved by the centuries skipped in the Gregorian one.
JuldayJulianOnly(year, month, day, hour, gregflag) ==
    LET u == IF month < 3 THEN year - 1 ELSE year
        u1 == IF month + 1 < 4 THEN month + 13 ELSE month + 1
    IN  48 * (((u + 4712) * 1461) \div 4 + (306 * u1) \div 10 + day) + hour
            - 3048
Julday(year, month, day, hour, gregflag) ==
    LET abs(a) == IF a < 0 THEN 0 - a ELSE a
        swe_julday(y, m, d, h, flag) ==
            LET u == IF m < 3 THEN y - 1 ELSE y
                u0 == u + 4712
                u1 == IF m + 1 < 4 THEN m + 13 ELSE m + 1
                jd == 48 * ((u0 * 1461) \div 4 + (306 * u1) \div 10 + d) + h
                          - 3048
                a2 == abs(u) \div 100 - abs(u) \div 400
                u2 == IF u < 0 THEN 0 - a2 ELSE a2
                jg == jd - 48 * u2 + 96
            IN  IF flag # GregCal THEN jd
                ELSE IF u < 0 /\ u % 100 = 0 /\ u % 400 # 0 THEN jg - 48
                ELSE jg
    IN  swe_julday(year, month, day, hour, gregflag)

\* swe_revjul: the calendar date and hour of a day number.
RevjulJulianOnly(jd, gregflag) ==
    LET u2 == (jd + 1539960) \div 48 + 123
        u3 == (u2 * 100 - 12220) \div 36525
        u4 == ((u2 - (1461 * u3) \div 4) * 10000) \div 306001
    IN  [Year |-> u3 + (u4 - 2) \div 12 - 4800,
         Month |-> IF u4 - 1 > 12 THEN u4 - 13 ELSE u4 - 1,
         Day |-> u2 - (1461 * u3) \div 4 - (306001 * u4) \div 10000,
         Hour |-> (jd + 24) % 48]
Revjul(jd, gregflag) ==
    LET century == 48 * 36525
        swe_revjul(j, flag) ==
            LET j0 == j + 1539960
                j1 == j0 + 48 * (j0 \div century - j0 \div (4 * century) - 38)
                         + (IF j >= 87873192 THEN 48 ELSE 0)
                u0 == IF flag = GregCal
                      THEN j0 + 48 * (j1 \div century - j1 \div (4 * century)
                                          - 38)
                      ELSE j0
                u2 == u0 \div 48 + 123
                u3 == (u2 * 100 - 12220) \div 36525
                u4 == ((u2 - (1461 * u3) \div 4) * 10000) \div 306001
                jmon == u4 - 1
            IN  <<u3 + (u4 - 2) \div 12 - 4800,
                  IF jmon > 12 THEN jmon - 12 ELSE jmon,
                  u2 - (1461 * u3) \div 4 - (306001 * u4) \div 10000,
                  (j + 24) % 48>>
        r == swe_revjul(jd, gregflag)
    IN  [Year |-> r[1], Month |-> r[2], Day |-> r[3], Hour |-> r[4]]

\* swe_day_of_week: the whole days since a Monday noon, reduced to 0..6.  The
\* remainder of C has the sign of the dividend and is moved up when negative.
DayOfWeekRemainder(jd) ==
    LET d == (jd - 48 * 2433282 - 72) \div 48
    IN  IF d >= 0 THEN d % 7 ELSE 0 - ((0 - d) % 7)
DayOfWeek(jd) ==
    LET rem(a, m) == IF a >= 0 THEN a % m ELSE 0 - ((0 - a) % m)
        swe_day_of_week(j) ==
            rem(rem((j - 48 * 2433282 - 72) \div 48, 7) + 7, 7)
    IN  swe_day_of_week(jd)

\* findHouse of the natal chart example: the first i + 1 whose arc from
\* houses[i] to the next cusp holds longitude, and 1 when no arc does.
findHouseNoWrap(longitude, houses) ==
    LET n == Len(houses)
        hits == {i \in 0..(n - 1) :
                     /\ longitude >= houses[i + 1]
                     /\ longitude < houses[((i + 1) % n) + 1]}
    IN  IF hits = {} THEN 1
        ELSE (CHOOSE i \in hits : \A j \in hits : i <= j) + 1
findHouse(longitude, houses) ==
    LET n == Len(houses)
        hit(i) ==
            LET nextHouse == houses[((i + 1) % n) + 1]
                currentHouse == houses[i + 1]
            IN  IF nextHouse < currentHouse
                THEN longitude >= currentHouse \/ longitude < nextHouse
                ELSE longitude >= currentHouse /\ longitude < nextHouse
        hits == {i \in 0..(n - 1) : hit(i)}
    IN  IF hits = {} THEN 1
        ELSE (CHOOSE i \in hits : \A j \in hits : i <= j) + 1

\* Largest longitude of the first cusp given to findHouse, in half degrees.
MaxShift == 30

\* Largest day number given to DayOfWeek directly, in 1/48 days.
MaxJd == 1000

\* A call of pure wrapper f with arguments a returned r; m is the call kept.
Pure(f, a, r, m) ==
    /\ fn' = f
    /\ arg' = a
    /\ res' = r
    /\ memo' = m
    /\ UNCHANGED <<nat, swed, pc>>

\* A program that makes one call of a pure wrapper, and may give the day
\* number Julday returned to Revjul or to DayOfWeek.
NextFn ==
    LET Angles == (0 - MaxAngle)..MaxAngle
        Pairs == {x \in Angles : x % 20 = 0 \/ x % 47 = 0}
        Years == {y \in (0 - MaxYear)..MaxYear :
                      \/ y % 100 = 0 \/ y % 97 = 0
                      \/ y \in 1580..1584 \/ y \in 1999..2001
                      \/ y \in {MaxYear, 0 - MaxYear}}
        Leap(y, flag) ==
            IF flag = GregCal /\ y % 100 = 0 THEN y % 400 = 0 ELSE y % 4 = 0
        Last(y, m, flag) ==
            IF m = 2 THEN (IF Leap(y, flag) THEN 29 ELSE 28)
            ELSE IF m \in {4, 6, 9, 11} THEN 30 ELSE 31
        Days(y, m, flag) == {1, 15} \cup (28..Last(y, m, flag))
        \* Twelve cusps that start at shift and are width[i] apart, and the
        \* slices of at most two cusps out of three values.
        Equal == [i \in 1..12 |-> 60]
        Unequal == <<40, 80, 60, 60, 50, 70, 40, 80, 60, 60, 50, 70>>
        RECURSIVE Upto(_, _)
        Upto(width, i) == IF i = 0 THEN 0 ELSE Upto(width, i - 1) + width[i]
        Cusps(first, shift, width) ==
            [i \in 1..12 |->
                 (shift + Upto(width, ((i + first - 2) % 12))) % (2 * 360)]
        Short == UNION {[1..n -> {0, 20, 40}] : n \in 0..2}
    IN  \/ /\ fn = ""
           /\ \E shift \in 0..MaxShift, first \in {1, 4},
                  width \in {Equal, Unequal}, longitude \in 0..(2 * 360 - 1) :
                  \E houses \in {Cusps(first, shift, width)} :
                      Pure("findHouse", <<longitude, houses>>,
                           [val |-> <<findHouse(longitude, houses)>>], memo)
        \/ /\ fn = ""
           /\ \E houses \in Short, longitude \in {0, 10, 20, 30, 40, 50} :
                  Pure("findHouse", <<longitude, houses>>,
                       [val |-> <<findHouse(longitude, houses)>>], memo)
        \/ /\ fn = ""
           /\ \E x \in Angles :
                  Pure("Degnorm", <<x>>, [val |-> <<Degnorm(x)>>], memo)
        \/ /\ fn = ""
           /\ \E p1, p2 \in Pairs :
                  Pure("Difdegn", <<p1, p2>>, [val |-> <<Difdegn(p1, p2)>>],
                       memo)
        \/ /\ fn = ""
           /\ \E y \in Years, m \in 1..12, flag \in {JulCal, GregCal} :
                  \E d \in Days(y, m, flag), h \in {0, 1, 24, 47} :
                      Pure("Julday", <<y, m, d, h, flag>>,
                           [val |-> <<Julday(y, m, d, h, flag)>>], memo)
        \/ /\ fn = ""
           /\ \E jd \in (0 - MaxJd)..MaxJd :
                  Pure("DayOfWeek", <<jd>>, [val |-> <<DayOfWeek(jd)>>], memo)
        \/ /\ fn = "Julday"
           /\ Pure("DayOfWeek", <<res.val[1]>>,
                   [val |-> <<DayOfWeek(res.val[1])>>], memo)
        \/ /\ fn = "Julday"
           /\ \E flag \in {JulCal, GregCal} :
                  Pure("Revjul", <<res.val[1], flag>>,
                       Revjul(res.val[1], flag),
                       [fn |-> fn, res |-> res, swed |-> swed, arg |-> arg,
                        seen |-> TRUE])

SpecFn == Init /\ [][NextFn]_vars

\* C15: Degnorm is idempotent, its result is in [0, 360) and differs from its
\* argument by a whole number of turns; 375.5 gives 15.5, -10 gives 350,
\* 360 gives 0 and 720.5 gives 0.5.
C15_DegnormClosed ==
    /\ fn = "Degnorm" =>
           LET r == res.val[1]
           IN  /\ 0 <= r /\ r < 2 * 360
               /\ Degnorm(r) = r
               /\ (r - arg[1]) % (2 * 360) = 0
    /\ Degnorm(751) = 31
    /\ Degnorm(0 - 20) = 700
    /\ Degnorm(720) = 0
    /\ Degnorm(1441) = 1

C15_Witness ==
    /\ fn = "Degnorm"
    /\ arg = <<0 - 20>>
    /\ res.val = <<700>>

\* C16: Revjul of the day number Julday gave for a calendar date, with the
\* calendar flag Julday was given, returns the year, month, day and hour of
\* that date.
C16_CalendarRoundTrip ==
    (fn = "Revjul" /\ memo.fn = "Julday" /\ arg[2] = memo.arg[5]) =>
        /\ arg[1] = memo.res.val[1]
        /\ res.Year = memo.arg[1]
        /\ res.Month = memo.arg[2]
        /\ res.Day = memo.arg[3]
        /\ res.Hour = memo.arg[4]

C16_Witness ==
    /\ fn = "Revjul"
    /\ memo.fn = "Julday"
    /\ memo.arg = <<1900, 2, 29, 47, JulCal>>
    /\ arg[2] = JulCal
    /\ res = [Year |-> 1900, Month |-> 2, Day |-> 29, Hour |-> 47]

\* C17: Julday(2000, 1, 1, 12.0, GregCal) is 2451545.0 exactly.
C17_J2000 ==
    (fn = "Julday" /\ arg = <<2000, 1, 1, 24, GregCal>>) =>
        res.val = <<48 * 2451545>>

C17_Witness ==
    /\ fn = "Julday"
    /\ arg = <<2000, 1, 1, 24, GregCal>>
    /\ res.val[1] = 48 * 2451545

NextTid ==
    LET Step(f, n, r, s, a, m) ==
            /\ fn' = f
            /\ nat' = n
            /\ res' = r
            /\ swed' = s
            /\ arg' = a
            /\ memo' = m
            /\ pc' = pc
        Calculation(f, c, in) ==
            Step(f, Native(f, c[3][1], c[3][2], c[3][3]), c[1], c[2], in, memo)
        Kept(x) ==
            [fn |-> "SetTidAcc", res |-> Void, swed |-> SwedInit,
             arg |-> <<x>>, seen |-> FALSE]
    IN  \/ \E tidAcc \in {TidalAutomatic, TidalDefault, Tidal26, 0} :
               Step("SetTidAcc", NoCall, Void, SetTidAcc(swed, tidAcc),
                    <<tidAcc>>, Kept(tidAcc))
        \/ Step("GetTidAcc", NoCall, GetTidAcc(swed), swed, <<>>, memo)
        \/ \E in \in Inputs : \E c \in {CalcCall(swed, in[1], in[2])} :
               Calculation("Calc", c, in)
        \/ \E in \in Inputs : \E c \in {CalcUTCall(swed, in[1], in[2])} :
               Calculation("CalcUT", c, in)
        \/ \E in \in Inputs : \E c \in {CalcPctrCall(swed, in[1], in[2])} :
               Calculation("CalcPctr", c, in)
        \/ \E path \in {<<>>, EpheDir} :
               Step("SetEphePath", NoCall, Void, SetEphePath(swed, path),
                    <<>>, memo)
        \/ \E dt \in {DeltatAutomatic, 64} :
               Step("SetDeltaTUserdef", NoCall, Void,
                    SetDeltaTUserdef(swed, dt), <<>>, memo)
        \/ \E forget \in BOOLEAN :
               Step("Close", Native("Close", OK, <<>>, <<Cardinality(swed.open)>>),
                    Void, Close(swed, forget), <<>>, NoMemo)

SpecTid == Init /\ [][NextTid]_vars

\* C18 as stated: GetTidAcc after SetTidAcc(x), with calculation calls but no
\* other SetTidAcc and no Close in between, returns x, for every x.
C18_TidAccRoundTripAll ==
    (fn = "GetTidAcc" /\ memo.fn = "SetTidAcc") => res.val = memo.arg

\* C18: GetTidAcc after SetTidAcc(x), with calculation calls but no other
\* SetTidAcc and no Close in between, returns x, for every x other than
\* TidalAutomatic.
C18_TidAccRoundTrip ==
    (fn = "GetTidAcc" /\ memo.fn = "SetTidAcc"
         /\ memo.arg # <<TidalAutomatic>>) =>
        res.val = memo.arg

C18_Witness ==
    /\ fn = "GetTidAcc"
    /\ memo.fn = "SetTidAcc"
    /\ memo.arg = <<Tidal26>>
    /\ res.val = <<Tidal26>>
    /\ swed.open # {}

\* C19: Houses, HousesEx, HousesEx2, HousesArmc and HousesArmcEx2 return 36
\* cusps when hsys is 'G' and the native status is OK and 12 cusps otherwise,
\* cusp i being native cusps[i] (index 0 skipped); Points has the 8 entries
\* ascmc[0..7]; no read leaves the 37- and the 10-element buffer.
C19_CuspCounts ==
    fn \in {"Houses", "HousesEx", "HousesEx2", "HousesArmc", "HousesArmcEx2"} =>
        LET cusps == SubSeq(nat.out, 1, 37)
            ascmc == SubSeq(nat.out, 38, 47)
            n == IF arg[1] = HsysG /\ nat.status = OK THEN 36 ELSE 12
        IN  /\ DOMAIN res.Houses = 1..n
            /\ \A i \in 1..n : i + 1 <= Len(cusps) /\ res.Houses[i] = cusps[i + 1]
            /\ DOMAIN res.Points = 1..8
            /\ \A i \in 1..8 : i <= Len(ascmc) /\ res.Points[i] = ascmc[i]

C19_Witness ==
    /\ fn = "HousesArmcEx2"
    /\ arg = <<HsysG>>
    /\ nat.status = OK
    /\ DOMAIN res.Houses = 1..36
    /\ res.Houses[36] = nat.out[37]
    /\ res.Points[8] = nat.out[45]

\* C21: Difdegn returns the signed shortest arc from p2 to p1, between -180
\* and 180 degrees, so that its absolute value is the angular separation;
\* Difdegn(350, 10) is -20.
C21_SignedShortestArc ==
    fn = "Difdegn" =>
        LET r == res.val[1]
        IN  /\ 0 - 360 <= r /\ r <= 360
            /\ (r - (arg[1] - arg[2])) % (2 * 360) = 0
            /\ arg = <<700, 20>> => r = 0 - 40

C21_Witness ==
    /\ fn = "Difdegn"
    /\ arg = <<700, 20>>
    /\ res.val = <<680>>
    /\ res.val[1] > 360

\* C22: DayOfWeek(jd) is in 0..6; the day number of 2000-01-01 12:00 gives 5
\* (Saturday, Monday being 0); DayOfWeek(jd + 1) is (DayOfWeek(jd) + 1) mod 7.
C22_DayOfWeekCycle ==
    fn = "DayOfWeek" =>
        LET r == res.val[1]
        IN  /\ r \in 0..6
            /\ DayOfWeek(arg[1] + 48) = (r + 1) % 7
            /\ arg[1] = 48 * 2451545 => r = 5

C22_Witness ==
    /\ fn = "DayOfWeek"
    /\ arg = <<48 * 2451545>>
    /\ res.val = <<5>>

(***************************************************************************)
(* The bit-mask constants of the package, by name, and the values the      *)
(* README prints for some of them.  a | b of Go is Or(a, b).               *)
(***************************************************************************)
BitMasks ==
    LET RECURSIVE Or(_, _)
        Or(a, b) == IF a = 0 THEN b
                    ELSE IF b = 0 THEN a
                    ELSE (IF a % 2 = 1 \/ b % 2 = 1 THEN 1 ELSE 0)
                             + 2 * Or(a \div 2, b \div 2)
        Or3(a, b, c) == Or(Or(a, b), c)
    IN  [FlagJpleph |-> 1, FlagSwieph |-> FlagSwieph, FlagMoseph |-> FlagMoseph,
         FlagHelctr |-> 8, FlagTruepos |-> 16, FlagJ2000 |-> 32,
         FlagNonut |-> 64, FlagSpeed3 |-> 128, FlagSpeed |-> 256,
         FlagNogdefl |-> 512, FlagNoaberr |-> 1024,
         FlagAstrometric |-> Or(1024, 512),
         FlagEquatorial |-> 2048, FlagXYZ |-> 4096, FlagRadians |-> 8192,
         FlagBaryctr |-> 16384, FlagTopoctr |-> FlagTopoctr,
         FlagOrbelAA |-> FlagTopoctr, FlagTropical |-> 0,
         FlagSidereal |-> FlagSidereal, FlagICRS |-> 131072,
         FlagDpsideps1980 |-> 262144, FlagJplhor |-> 262144,
         FlagJplhorApprox |-> 524288, FlagCenterBody |-> 1048576,
         EclCentral |-> 1, EclNoncentral |-> 2, EclTotal |-> 4,
         EclAnnular |-> 8, EclPartial |-> 16, EclAnnularTotal |-> 32,
         EclPenumbral |-> 64,
         EclAlltypesSolar |-> Or3(Or3(1, 2, 4), Or(8, 16), 32),
         EclAlltypesLunar |-> Or3(4, 16, 64),
         BitDiscCenter |-> 256, BitGeoctrNoEclLat |-> 128,
         BitNoRefraction |-> 512,
         BitHinduRising |-> Or3(256, 512, 128)]

ReadmeFlagsSwapped ==
    [FlagSwieph |-> 2, FlagSpeed |-> 256, FlagEquatorial |-> 2048,
     FlagRadians |-> 8192, FlagTopoctr |-> 65536, FlagSidereal |-> 32768]
ReadmeFlags ==
    [FlagSwieph |-> 2, FlagSpeed |-> 256, FlagEquatorial |-> 2048,
     FlagRadians |-> 8192, FlagTopoctr |-> 32768, FlagSidereal |-> 65536]

\* C23: the calculation flags FlagJpleph .. FlagCenterBody are the 21 single
\* bits 1 .. 1048576, pairwise distinct apart from the aliases FlagOrbelAA,
\* FlagJplhor and FlagTropical = 0; FlagAstrometric is 1536, EclAlltypesSolar
\* 63, EclAlltypesLunar 84 and BitHinduRising 896, each the OR of its parts;
\* the README prints the values of the code.
C23_BitMasksExact ==
    LET c == BitMasks
        bits == {"FlagJpleph", "FlagSwieph", "FlagMoseph", "FlagHelctr",
                 "FlagTruepos", "FlagJ2000", "FlagNonut", "FlagSpeed3",
                 "FlagSpeed", "FlagNogdefl", "FlagNoaberr", "FlagEquatorial",
                 "FlagXYZ", "FlagRadians", "FlagBaryctr", "FlagTopoctr",
                 "FlagSidereal", "FlagICRS", "FlagDpsideps1980",
                 "FlagJplhorApprox", "FlagCenterBody"}
    IN  /\ {c[k] : k \in bits} = {2 ^ n : n \in 0..20}
        /\ \A j, k \in bits : c[j] = c[k] => j = k
        /\ c.FlagOrbelAA = c.FlagTopoctr
        /\ c.FlagJplhor = c.FlagDpsideps1980
        /\ c.FlagTropical = 0
        /\ c.FlagAstrometric = 1536
        /\ c.FlagAstrometric = c.FlagNoaberr + c.FlagNogdefl
        /\ c.EclAlltypesSolar = 63
        /\ c.EclAlltypesSolar
               = c.EclCentral + c.EclNoncentral + c.EclTotal + c.EclAnnular
                     + c.EclPartial + c.EclAnnularTotal
        /\ c.EclAlltypesLunar = 84
        /\ c.EclAlltypesLunar = c.EclTotal + c.EclPartial + c.EclPenumbral
        /\ c.BitHinduRising = 896
        /\ c.BitHinduRising
               = c.BitDiscCenter + c.BitNoRefraction + c.BitGeoctrNoEclLat
        /\ \A k \in DOMAIN ReadmeFlags : ReadmeFlags[k] = c[k]
        /\ fn \in CalcFns /\ nat.status >= 0 /\ arg[2] = c.FlagSwieph =>
               HasFlag(nat.status, ReadmeFlags.FlagSwieph)
                   \/ HasFlag(nat.status, c.FlagMoseph)

C23_Witness ==
    /\ fn = "Calc"
    /\ arg = <<Sun, BitMasks.FlagSwieph>>
    /\ nat.status = ReadmeFlags.FlagSwieph
    /\ BitMasks.FlagAstrometric = 1536

\* C24: on success LunEclipseWhen returns in Totality the end of totality
\* (native tret[5]) minus its begin (native tret[4]), which is not negative
\* when the begin is not after the end.
C24_TotalityIsDuration ==
    (fn = "LunEclipseWhen" /\ nat.status >= 0) =>
        /\ res.Totality = nat.out[6] - nat.out[5]
        /\ nat.out[5] <= nat.out[6] => res.Totality >= 0

C24_Witness ==
    /\ fn = "LunEclipseWhen"
    /\ nat.status >= 0
    /\ nat.out[5] < nat.out[6]
    /\ res.Totality = nat.out[5] - nat.out[6]
    /\ res.Totality < 0

\* C25: on success SolEclipseWhenLoc and LunOccultWhenLoc return Maximum =
\* native tret[0], Begin = native tret[1] (first contact) and End = native
\* tret[4] (fourth contact), so that Begin <= Maximum <= End when the native
\* instants are in their order in time.
C25_BeginMaximumEnd ==
    (fn \in {"SolEclipseWhenLoc", "LunOccultWhenLoc"} /\ nat.status >= 0) =>
        LET tret == SubSeq(nat.out, 1, 10)
        IN  /\ res.Maximum = tret[1]
            /\ res.Begin = tret[2]
            /\ res.End = tret[5]
            /\ (tret[2] <= tret[3] /\ tret[3] <= tret[1] /\ tret[1] <= tret[4]
                    /\ tret[4] <= tret[5]) =>
                   (res.Begin <= res.Maximum /\ res.Maximum <= res.End)

C25_Witness ==
    /\ fn = "LunOccultWhenLoc"
    /\ nat.status >= 0
    /\ nat.out[2] < nat.out[3] /\ nat.out[3] < nat.out[1]
    /\ nat.out[1] < nat.out[4] /\ nat.out[4] < nat.out[5]
    /\ res.End = nat.out[3]
    /\ res.End < res.Maximum

(***************************************************************************)
(* SpecArg: the latitude and longitude a house wrapper hands to its native *)
(* call.  A coordinate is a whole number of half degrees.  memo.arg keeps  *)
(* the float64 values the caller has, arg the values the native call gets. *)
(* Houses declares geolat, geolon float64; HousesEx and HousesEx2 declare  *)
(* geolat, geolon, hsys byte, so their caller has to convert with byte(x). *)
(***************************************************************************)
MaxGeo == 20

NextArg ==
    LET Coords == ((0 - MaxGeo)..MaxGeo) \cup {75, 0 - 244, 360}
        \* byte(x) of a float64: the fraction is dropped; a value no byte
        \* holds converts to a value the implementation chooses.
        trunc(x) == IF x >= 0 THEN x \div 2 ELSE 0 - ((0 - x) \div 2)
        byte(x) == IF 0 <= x /\ trunc(x) <= 255 THEN {trunc(x)}
                   ELSE {0, 255, trunc(x) % 256}
        \* C.double(geolat) of a float64 and of a byte
        Houses_geo(geolat, geolon) == <<geolat, geolon>>
        HousesEx_geo(geolat, geolon) == <<2 * geolat, 2 * geolon>>
        HousesEx2_geo(geolat, geolon) == <<2 * geolat, 2 * geolon>>
        Call(f, given, handed) ==
            /\ fn' = f
            /\ arg' = handed
            /\ memo' = [fn |-> f, res |-> Void, swed |-> SwedInit,
                        arg |-> given, seen |-> FALSE]
            /\ UNCHANGED <<nat, res, swed, pc>>
    IN  /\ fn = ""
        /\ \E x, y \in Coords :
               \/ Call("Houses", <<x, y>>, Houses_geo(x, y))
               \/ \E bx \in byte(x), by \in byte(y) :
                      Call("HousesEx", <<x, y>>, HousesEx_geo(bx, by))
               \/ \E bx \in byte(x), by \in byte(y) :
                      Call("HousesEx2", <<x, y>>, HousesEx2_geo(bx, by))

SpecArg == Init /\ [][NextArg]_vars

\* C26: HousesEx and HousesEx2 hand their native call the latitude and the
\* longitude the caller has, negative and fractional ones included, as
\* Houses does.
C26_SameCoordinates ==
    fn \in {"Houses", "HousesEx", "HousesEx2"} => arg = memo.arg

C26_Witness ==
    /\ fn = "HousesEx2"
    /\ memo.arg = <<75, 0 - 244>>
    /\ arg[1] = 74
    /\ arg[2] \in {0, 2 * 255, 2 * 134}

\* C27: when the native status is negative, SolEclipseWhenLoc,
\* SolEclipseWhenGlob, LunEclipseWhen, LunEclipseWhenLoc, LunOccultWhenLoc,
\* LunOccultWhenGlob and HeliacalUT copy nothing from the native buffers:
\* Maximum, Begin, End and Totality are 0 (HeliacalUT: Time is three zeros),
\* Attr is nil or all zeros; Flag and Error are the native status and message.
C27_NothingCopiedOnFailure ==
    (nat.status < 0
         /\ fn \in {"SolEclipseWhenLoc", "SolEclipseWhenGlob", "LunEclipseWhen",
                    "LunEclipseWhenLoc", "LunOccultWhenLoc",
                    "LunOccultWhenGlob", "HeliacalUT"}) =>
        /\ res.Flag = nat.status
        /\ res.Error = nat.msg
        /\ \A i \in DOMAIN res.Attr : res.Attr[i] = 0
        /\ IF fn = "HeliacalUT" THEN res.Time = <<0, 0, 0>>
           ELSE /\ res.Maximum = 0 /\ res.Begin = 0
                /\ res.End = 0 /\ res.Totality = 0

C27_Witness ==
    /\ fn = "LunEclipseWhenLoc"
    /\ nat.status < 0
    /\ nat.msg # <<>>
    /\ nat.out[1] # 0
    /\ res.Maximum = 0
    /\ res.Error = nat.msg
    /\ DOMAIN res.Attr = 1..20

\* C28: for a star name of any length the MaxStname-byte buffer that Fixstar,
\* FixstarUT, Fixstar2, Fixstar2UT, FixstarMag and Fixstar2Mag hand to the
\* native library holds a NUL; for a name shorter than MaxStname it holds the
\* name followed by NUL bytes; the read-back of StarName stays inside it.
C28_StarBufTerminated ==
    fn \in {"Fixstar", "FixstarUT", "Fixstar2", "Fixstar2UT", "FixstarMag",
            "Fixstar2Mag"} =>
        \E buf \in {StarBuf(nat.cin)} :
            /\ Len(buf) = MaxStname
            /\ \E i \in 1..Len(buf) : buf[i] = 0
            /\ Len(nat.cin) < MaxStname =>
                   /\ SubSeq(buf, 1, Len(nat.cin)) = nat.cin
                   /\ \A i \in (Len(nat.cin) + 1)..Len(buf) : buf[i] = 0
            /\ Len(res.StarName) < MaxStname

C28_Witness ==
    /\ fn = "FixstarMag"
    /\ Len(nat.cin) = MaxStname
    /\ \A i \in 1..MaxStname : StarBuf(nat.cin)[i] # 0
    /\ Len(res.StarName) = MaxStname + 1

(***************************************************************************)
(* SpecMem: the blocks of the C heap the wrappers allocate and free.  Two  *)
(* threads call the allocating wrappers; a thread enters a wrapper (up to  *)
(* its native call) and later leaves it (the native call returns and the   *)
(* deferred C.free runs).  memo.arg is the heap, the blocks allocated and  *)
(* not freed; memo.seen tells that C.free was given a pointer that is no   *)
(* such block; pc[t].arg is <<string argument, pointer held>> of the call  *)
(* thread t is inside, the pointer being 0 when the call allocated none.   *)
(***************************************************************************)
\* The heap operations of wrapper f called with string a: every wrapper
\* allocates one block (C.CString, or C.malloc in Version and GetLibraryPath)
\* and defers its C.free; SetEphePath("") returns before it allocates.
HeapOpsNoFree(f, a) ==
    IF f = "SetEphePath" /\ a = <<>> THEN <<>> ELSE <<"alloc">>
HeapOps(f, a) ==
    IF f = "SetEphePath" /\ a = <<>> THEN <<>> ELSE <<"alloc", "free">>

NextMem ==
    LET Range(q) == {q[i] : i \in DOMAIN q}
        Wrappers == {"Version", "GetLibraryPath", "SetEphePath", "SetJplFile",
                     "RiseTrans", "RiseTransTrueHor", "GauquelinSector",
                     "LunOccultWhenLoc", "LunOccultWhenGlob", "LunOccultWhere",
                     "HeliacalUT", "HeliacalPhenoUT", "VisLimitMag"}
        Fresh(heap) == CHOOSE b \in 1..(Len(heap) + 1) : b \notin Range(heap)
        Remove(heap, b) == SelectSeq(heap, LAMBDA x : x # b)
        \* swe_version returns the buffer it was given.
        swe_version(sp) == sp
        Allocate(t) ==
            /\ pc[t].fn = ""
            /\ \E f \in Wrappers, a \in Names :
                   \E b \in {IF "alloc" \in Range(HeapOps(f, a))
                             THEN Fresh(memo.arg) ELSE 0} :
                       /\ pc' = [pc EXCEPT ![t] =
                                     [fn |-> f, arg |-> <<a, b>>,
                                      raced |-> FALSE, calls |-> 1]]
                       /\ memo' = IF b = 0 THEN memo
                                  ELSE [memo EXCEPT !.arg = @ \o <<b>>]
            /\ UNCHANGED <<fn, nat, res, swed, arg>>
        Release(t) ==
            /\ pc[t].fn # ""
            /\ \E b \in {IF pc[t].fn = "Version" THEN swe_version(pc[t].arg[2])
                         ELSE pc[t].arg[2]} :
                   memo' = IF "free" \notin Range(HeapOps(pc[t].fn, pc[t].arg[1]))
                           THEN memo
                           ELSE IF b \in Range(memo.arg)
                           THEN [memo EXCEPT !.arg = Remove(@, b)]
                           ELSE [memo EXCEPT !.seen = TRUE]
            /\ fn' = pc[t].fn
            /\ pc' = [pc EXCEPT ![t] = Idle(0)]
            /\ UNCHANGED <<nat, res, swed, arg>>
    IN  \E t \in Threads : Allocate(t) \/ Release(t)

SpecMem == Init /\ [][NextMem]_vars

\* C29: every block a wrapper allocates is freed exactly once before the
\* wrapper returns: the blocks outstanding are those of the calls in progress,
\* none when no call is in progress, and C.free is never given a pointer that
\* is not an outstanding block of the shim.
C29_AllocationsFreedOnce ==
    LET held == {pc[t].arg[2] :
                     t \in {u \in Threads : pc[u].fn # "" /\ pc[u].arg[2] # 0}}
        live == {memo.arg[i] : i \in DOMAIN memo.arg}
    IN  /\ ~memo.seen
        /\ live = held
        /\ Cardinality(live) = Len(memo.arg)
        /\ (\A t \in Threads : pc[t].fn = "") => memo.arg = <<>>

C29_Witness ==
    /\ fn = "Version"
    /\ pc[1] = Idle(0)
    /\ pc[2].fn = "RiseTrans"
    /\ memo.arg = <<pc[2].arg[2]>>
    /\ pc[2].arg[2] = 2

====
